---- MODULE Spec2Model ----
(***************************************************************************)
(* Bike Works: the document store (users, bikes), the security rules that  *)
(* the store evaluates on every request (firestore.rules), and the         *)
(* operations of lib/userOperations that read and write bike and user      *)
(* documents (purchaseBikeForUser, createBikeForUser,                      *)
(* associateBikeWithUser) together with the screens that call them.        *)
(*                                                                         *)
(* Every await of the source is one atomic step against the store; the     *)
(* synchronous code that follows an await belongs to that step.            *)
(***************************************************************************)
EXTENDS Integers, FiniteSets, Sequences, TLC

\* ------------------------------------------------------------------ bounds
NumUsers == 2
MaxBikes == 2
\* how many operations the users start in one run
MaxCalls == 3
MaxJobs == 1
MaxClients == 1

Uids    == 1..NumUsers
BikeIds == 1..MaxBikes
JobIds  == 1..MaxJobs
\* client documents get generated ids, which are no uids
ClientIds == {NumUsers + c : c \in 1..MaxClients}

\* request.auth == null
NoAuth  == 0
\* a field that the document does not have
Missing == "missing"
NoUser  == 0
NoBike  == 0
\* clientId: null
NoClient == NoUser

VARIABLES
    users,      \* collection users:  uid -> document
    bikes,      \* collection bikes:  bike id -> document
    call,       \* per signed-in user: the operation their screen has in flight
    ncalls,     \* how many operations have been started
    req,        \* the request last put to the rules evaluator and its decision
    jobs,       \* collection jobs:   job id -> document
    deployed,   \* whether firestore.rules is the rule set the store applies
    accounts,   \* Firebase Auth: the uids that have an account
    fbUser,     \* Firebase Auth: the signed-in account of this client, or NoAuth
    auth,       \* AuthProvider: authState
    tasks,      \* AuthProvider and admin screens: the async functions in flight
    clients,    \* collection clients: client id -> whether the document exists
    screen,     \* per signed-in user: the ClientList screen (list, deleteClient)
    purchases,  \* collection purchases: the sale records written
    wiz,        \* per signed-in user: the sales wizard and its SaleReview
    scan,       \* the JobSheetScanner screen of this client
    view        \* the BikeList screen of this client

\* the state that the bike and user operations of lib/userOperations leave alone
ext == <<jobs, deployed, accounts, fbUser, auth, tasks, clients, screen, purchases, wiz,
        scan, view>>

vars == <<users, bikes, call, ncalls, req, ext>>

\* ------------------------------------------------------------- documents
NoUserDoc == [exists |-> FALSE, role |-> Missing, bikes |-> {}, jobs |-> {}]
NoBikeDoc == [exists |-> FALSE, status |-> Missing, userId |-> NoUser, clientId |-> NoUser]

\* a job document; userId is absent unless the writer put it there
NoJobDoc  == [exists |-> FALSE, userId |-> NoUser]
NoJobs    == [j \in JobIds |-> NoJobDoc]

Roles    == {"user", "admin"}
Statuses == {"available", "sold", "maintenance"}

UserDoc(r) == [exists |-> TRUE, role |-> r, bikes |-> {}, jobs |-> {}]

UserDocs == {NoUserDoc} \cup {UserDoc(r) : r \in Roles \cup {Missing}}

\* ---------------------------------------------- three-valued rule values
\* A rules expression evaluates to true, to false or to an error (a read of
\* a missing field, of a null resource or of a null request.auth).  An
\* allow statement grants the request only when its condition is true.
\* && and || absorb an error when the other operand decides the result.
T3 == "T"
F3 == "F"
E3 == "E"

Bool3(b) == IF b THEN T3 ELSE F3

And3(a, b) ==
    IF a = F3 \/ b = F3 THEN F3
    ELSE IF a = T3 /\ b = T3 THEN T3
    ELSE E3

Or3(a, b) ==
    IF a = T3 \/ b = T3 THEN T3
    ELSE IF a = F3 /\ b = F3 THEN F3
    ELSE E3

\* request.auth != null
AuthNotNull(uid) == Bool3(uid # NoAuth)

\* get(/databases/$(database)/documents/users/$(request.auth.uid)).data.role == 'admin'
RoleIsAdmin(uid) ==
    IF uid = NoAuth THEN E3
    ELSE IF ~users[uid].exists THEN E3
    ELSE IF users[uid].role = Missing THEN E3
    ELSE Bool3(users[uid].role = "admin")

isAdmin(uid) == And3(AuthNotNull(uid), RoleIsAdmin(uid))

\* request.auth.uid == userId
UidIs(uid, userId) == IF uid = NoAuth THEN E3 ELSE Bool3(uid = userId)

\* resource.data.status == 'available'
StatusIsAvailable(res) ==
    IF ~res.exists THEN E3
    ELSE IF res.status = Missing THEN E3
    ELSE Bool3(res.status = "available")

\* resource.data.userId == request.auth.uid
OwnerIsRequester(res, uid) ==
    IF ~res.exists THEN E3
    ELSE IF res.userId = NoUser THEN E3
    ELSE IF uid = NoAuth THEN E3
    ELSE Bool3(res.userId = uid)

\* UsersRule with reads opened to admins
UsersRule_adminRead(uid, op, userId) ==
    CASE op = "create" -> And3(AuthNotNull(uid), UidIs(uid, userId))
      [] op = "read" -> And3(AuthNotNull(uid), Or3(UidIs(uid, userId), isAdmin(uid)))
      [] op = "update" -> And3(AuthNotNull(uid), UidIs(uid, userId))
      [] OTHER -> F3

\* match /users/{userId}
UsersRule(uid, op, userId) ==
    CASE op = "create" -> And3(AuthNotNull(uid), UidIs(uid, userId))
      [] op \in {"read", "update"} -> And3(AuthNotNull(uid), UidIs(uid, userId))
      [] OTHER -> F3

\* BikesRule with the ownership-only read rule (no 'available' disjunct)
BikesRule_ownerRead(uid, op, res) ==
    CASE op = "create" -> And3(AuthNotNull(uid), isAdmin(uid))
      [] op \in {"read", "update", "delete"} ->
            And3(AuthNotNull(uid), Or3(OwnerIsRequester(res, uid), isAdmin(uid)))
      [] OTHER -> F3

\* BikesRule with update and delete left to the owner alone
BikesRule_ownerWrite(uid, op, res) ==
    CASE op = "create" -> And3(AuthNotNull(uid), isAdmin(uid))
      [] op = "read" ->
            And3(AuthNotNull(uid),
                 Or3(Or3(StatusIsAvailable(res), OwnerIsRequester(res, uid)),
                     isAdmin(uid)))
      [] op \in {"update", "delete"} ->
            And3(AuthNotNull(uid), OwnerIsRequester(res, uid))
      [] OTHER -> F3

\* BikesRule with the read condition copied to update and delete
BikesRule_availableWrite(uid, op, res) ==
    CASE op = "create" -> And3(AuthNotNull(uid), isAdmin(uid))
      [] op \in {"read", "update", "delete"} ->
            And3(AuthNotNull(uid),
                 Or3(Or3(StatusIsAvailable(res), OwnerIsRequester(res, uid)),
                     isAdmin(uid)))
      [] OTHER -> F3

\* BikesRule with create open to every authenticated requester
BikesRule_createAnyAuth(uid, op, res) ==
    CASE op = "create" -> AuthNotNull(uid)
      [] op = "read" ->
            And3(AuthNotNull(uid),
                 Or3(Or3(StatusIsAvailable(res), OwnerIsRequester(res, uid)),
                     isAdmin(uid)))
      [] op \in {"update", "delete"} ->
            And3(AuthNotNull(uid), Or3(OwnerIsRequester(res, uid), isAdmin(uid)))
      [] OTHER -> F3

\* BikesRule with the storefront's available bikes readable without signing in
BikesRule_publicRead(uid, op, res) ==
    CASE op = "create" -> And3(AuthNotNull(uid), isAdmin(uid))
      [] op = "read" ->
            Or3(StatusIsAvailable(res),
                And3(AuthNotNull(uid), Or3(OwnerIsRequester(res, uid), isAdmin(uid))))
      [] op \in {"update", "delete"} ->
            And3(AuthNotNull(uid), Or3(OwnerIsRequester(res, uid), isAdmin(uid)))
      [] OTHER -> F3

\* match /bikes/{bikeId}
BikesRule(uid, op, res) ==
    CASE op = "create" -> And3(AuthNotNull(uid), isAdmin(uid))
      [] op = "read" ->
            And3(AuthNotNull(uid),
                 Or3(Or3(StatusIsAvailable(res), OwnerIsRequester(res, uid)),
                     isAdmin(uid)))
      [] op \in {"update", "delete"} ->
            And3(AuthNotNull(uid), Or3(OwnerIsRequester(res, uid), isAdmin(uid)))
      [] OTHER -> F3

\* JobsRule with create left to admins, as for bikes
JobsRule_adminCreate(uid, op, res) ==
    CASE op = "create" -> And3(AuthNotNull(uid), isAdmin(uid))
      [] op \in {"read", "update", "delete"} ->
            And3(AuthNotNull(uid), Or3(OwnerIsRequester(res, uid), isAdmin(uid)))
      [] OTHER -> F3

\* match /jobs/{jobId}
JobsRule(uid, op, res) ==
    CASE op = "create" -> AuthNotNull(uid)
      [] op \in {"read", "update", "delete"} ->
            And3(AuthNotNull(uid), Or3(OwnerIsRequester(res, uid), isAdmin(uid)))
      [] OTHER -> F3

Ops         == {"create", "read", "update", "delete"}
Collections == {"users", "bikes", "jobs"}
\* the collections the application uses that no match statement names
Unmatched   == {"clients", "purchases", "sales"}

\* Allowed with a catch-all match that lets admins through
Allowed_adminAll(uid, op, coll, id) ==
    CASE coll = "users" -> UsersRule(uid, op, id) = T3
      [] coll = "bikes" -> BikesRule(uid, op, bikes[id]) = T3
      [] coll = "jobs" -> JobsRule(uid, op, jobs[id]) = T3
      [] OTHER -> isAdmin(uid) = T3

\* the decision of the rules on one request; a collection that no match
\* statement names is denied
Allowed(uid, op, coll, id) ==
    CASE coll = "users" -> UsersRule(uid, op, id) = T3
      [] coll = "bikes" -> BikesRule(uid, op, bikes[id]) = T3
      [] coll = "jobs" -> JobsRule(uid, op, jobs[id]) = T3
      [] OTHER -> FALSE

\* the store applies firestore.rules once they are deployed; until then it
\* answers every request
Granted(uid, op, coll, id) == deployed => Allowed(uid, op, coll, id)

\* ------------------------------------------------------------- messages
ErrUserNotFound == "User not found"
ErrBikeNotFound == "Bike not found"
ErrNotAvailable == "This bike is not available for purchase"
ErrOnlyAdmins   == "Only administrators can create new bikes"
\* what the store answers to a request the rules deny
ErrPermission   == "Missing or insufficient permissions."
\* what the store answers to an updateDoc of a document that does not exist
ErrNoDocument   == "No document to update"
\* a request that never got its answer (network, backend unavailable)
ErrUnavailable  == "unavailable"

\* the alert handleBikeOrder shows for a thrown error
errorMessage(err) ==
    IF err \in {ErrNotAvailable}
        THEN "This bike is no longer available for purchase."
    ELSE IF err \in {ErrPermission}
        THEN "You don't have permission to purchase this bike."
    ELSE "Failed to complete your purchase. Please try again."

\* ----------------------------------------------------------------- calls
\* A signed-in user has one screen in front of them and one operation of it
\* in flight: fn is the operation, pc the await it is suspended at (or done /
\* failed once it has returned or thrown), bike the bike id it works on, uex
\* its userDoc.exists(), err the error it threw and at the await that threw.
IdleCall == [fn |-> "none", pc |-> "idle", bike |-> NoBike, uex |-> FALSE,
             err |-> "none", at |-> "idle"]

NoErr == "none"

Pending  == {"getUser", "getBike", "updateBike", "setDoc", "associate"}
Returned == {"idle", "done", "failed"}

StartCall(fn, pc, b) == [IdleCall EXCEPT !.fn = fn, !.pc = pc, !.bike = b]

Thrown(c, e) == [c EXCEPT !.pc = "failed", !.err = e, !.at = c.pc]

NoReq == [uid |-> NoAuth, op |-> "none", coll |-> "none", id |-> 0, allowed |-> FALSE]

\* -------------------------------------------------- associateBikeWithUser
\* what updateDoc(users/userId, {bikes: arrayUnion(bikeId)}) answers to userId
associateError(userId) ==
    IF ~Granted(userId, "update", "users", userId) THEN ErrPermission
    ELSE IF ~users[userId].exists THEN ErrNoDocument
    ELSE NoErr

associateBikeWithUser(userId, bikeId) ==
    [users EXCEPT ![userId].bikes = @ \cup {bikeId}]

\* await associateBikeWithUser(userId, bikeId); return
\* (the last await of purchaseBikeForUser and of createBikeForUser)
Associate(u) ==
    LET c == call[u]
        e == associateError(u)
    IN  /\ c.pc = "associate"
        /\ IF e = NoErr
              THEN /\ users' = associateBikeWithUser(u, c.bike)
                   /\ call' = [call EXCEPT ![u].pc = "done"]
              ELSE /\ users' = users
                   /\ call' = [call EXCEPT ![u] = Thrown(@, e)]
        /\ UNCHANGED <<bikes, req, ncalls, ext>>

\* Fail with a compensating write: a purchase whose association fails puts
\* the bike back on sale
Fail_rollback(u) ==
    /\ call[u].pc \in Pending
    /\ call' = [call EXCEPT ![u] = Thrown(@, ErrUnavailable)]
    /\ bikes' = IF call[u].fn = "purchaseBikeForUser" /\ call[u].pc = "associate"
                THEN [bikes EXCEPT ![call[u].bike].status = "available",
                                   ![call[u].bike].clientId = NoUser]
                ELSE bikes
    /\ UNCHANGED <<users, req, ncalls, ext>>

\* an awaited request rejects without having been applied (network, backend
\* unavailable); the catch block logs and rethrows, nothing else is written
Fail(u) ==
    /\ call[u].pc \in Pending
    /\ call' = [call EXCEPT ![u] = Thrown(@, ErrUnavailable)]
    /\ UNCHANGED <<users, bikes, req, ncalls, ext>>

\* ---------------------------------------------------- purchaseBikeForUser
\* the bikes the storefront lists were fetched by getAvailableBikes at some
\* earlier moment: a listed bike has, or had, status 'available'
Listed(b) == bikes[b].exists /\ bikes[b].status \in {"available", "sold"}

\* Buy Now: handleBikeOrder calls purchaseBikeForUser(user.id, bike.id)
handleBikeOrder(u, b) ==
    /\ users[u].exists
    /\ call[u].pc \in Returned
    /\ ncalls < MaxCalls
    /\ ncalls' = ncalls + 1
    /\ Listed(b)
    /\ call' = [call EXCEPT ![u] = StartCall("purchaseBikeForUser", "getUser", b)]
    /\ UNCHANGED <<users, bikes, req, ext>>

\* const userDoc = await getDoc(userRef)
P_GetUser(u) ==
    /\ call[u].fn = "purchaseBikeForUser"
    /\ call[u].pc = "getUser"
    /\ call' = [call EXCEPT ![u] =
          IF Granted(u, "read", "users", u)
              THEN [@ EXCEPT !.pc = "getBike", !.uex = users[u].exists]
              ELSE Thrown(@, ErrPermission)]
    /\ UNCHANGED <<users, bikes, req, ncalls, ext>>

\* purchaseCheck without the availability check
purchaseCheck_noStatus(uex, bikeDoc) ==
    IF ~uex THEN ErrUserNotFound
    ELSE IF ~bikeDoc.exists THEN ErrBikeNotFound
    ELSE NoErr

\* the checks between the two reads and the update
purchaseCheck(uex, bikeDoc) ==
    IF ~uex THEN ErrUserNotFound
    ELSE IF ~bikeDoc.exists THEN ErrBikeNotFound
    ELSE IF bikeDoc.status # "available" THEN ErrNotAvailable
    ELSE NoErr

\* const bikeDoc = await getDoc(bikeRef), then the exists / status checks
P_GetBike(u) ==
    LET c == call[u]
        b == c.bike
        e == IF Granted(u, "read", "bikes", b)
                 THEN purchaseCheck(c.uex, bikes[b])
                 ELSE ErrPermission
    IN  /\ c.pc = "getBike"
        /\ call' = [call EXCEPT ![u] =
              IF e = NoErr THEN [@ EXCEPT !.pc = "updateBike"] ELSE Thrown(@, e)]
        /\ UNCHANGED <<users, bikes, req, ncalls, ext>>

\* what updateDoc(bikeRef, {status: 'sold', clientId: userId}) answers
updateBikeError(u, b) ==
    IF ~Granted(u, "update", "bikes", b) THEN ErrPermission
    ELSE IF ~bikes[b].exists THEN ErrNoDocument
    ELSE NoErr

\* P_UpdateBike as a conditional update keyed on the status field
P_UpdateBike_guarded(u) ==
    LET c == call[u]
        b == c.bike
        e == IF updateBikeError(u, b) # NoErr THEN updateBikeError(u, b)
             ELSE IF bikes[b].status # "available" THEN ErrNotAvailable
             ELSE NoErr
    IN  /\ c.pc = "updateBike"
        /\ IF e = NoErr
              THEN /\ bikes' = [bikes EXCEPT ![b].status = "sold", ![b].clientId = u]
                   /\ call' = [call EXCEPT ![u].pc = "associate"]
              ELSE /\ bikes' = bikes
                   /\ call' = [call EXCEPT ![u] = Thrown(@, e)]
        /\ UNCHANGED <<users, req, ncalls, ext>>

\* await updateDoc(bikeRef, {status: 'sold', clientId: userId, updatedAt})
P_UpdateBike(u) ==
    LET c == call[u]
        b == c.bike
        e == updateBikeError(u, b)
    IN  /\ c.pc = "updateBike"
        /\ IF e = NoErr
              THEN /\ bikes' = [bikes EXCEPT ![b].status = "sold", ![b].clientId = u]
                   /\ call' = [call EXCEPT ![u].pc = "associate"]
              ELSE /\ bikes' = bikes
                   /\ call' = [call EXCEPT ![u] = Thrown(@, e)]
        /\ UNCHANGED <<users, req, ncalls, ext>>

\* ------------------------------------------------------ createBikeForUser
\* doc(db, 'bikes', Date.now().toString()) and addDoc's generated id: an id
\* no document has yet and no pending createBikeForUser call has taken.
\* Date.now() grows, so ids are handed out in increasing order.
UnusedBikeIds ==
    {b \in BikeIds : /\ ~bikes[b].exists
                     /\ \A v \in Uids : ~(call[v].pc = "setDoc" /\ call[v].bike = b)}

FreshBikeIds ==
    {b \in UnusedBikeIds : \A x \in UnusedBikeIds : b <= x}

\* the add-bike screen: handleSubmit calls createBikeForUser(user.id,
\* {..., status: 'available', photos: []})
handleSubmit(u) ==
    /\ users[u].exists
    /\ call[u].pc \in Returned
    /\ ncalls < MaxCalls
    /\ ncalls' = ncalls + 1
    /\ call' = [call EXCEPT ![u] = StartCall("createBikeForUser", "getUser", NoBike)]
    /\ UNCHANGED <<users, bikes, req, ext>>

\* the checks that follow the read of the caller's user document
createCheck(userDoc) ==
    IF ~userDoc.exists THEN ErrUserNotFound
    ELSE IF userDoc.role # "admin" THEN ErrOnlyAdmins
    ELSE NoErr

\* const userDoc = await getDoc(userRef), the exists / role checks, bikeRef
C_GetUser(u) ==
    LET e == IF Granted(u, "read", "users", u)
                 THEN createCheck(users[u])
                 ELSE ErrPermission
    IN  /\ call[u].fn = "createBikeForUser"
        /\ call[u].pc = "getUser"
        /\ IF e = NoErr
              THEN \E b \in FreshBikeIds :
                      call' = [call EXCEPT ![u].pc = "setDoc", ![u].bike = b,
                                           ![u].uex = TRUE]
              ELSE call' = [call EXCEPT ![u] = Thrown(@, e)]
        /\ UNCHANGED <<users, bikes, req, ncalls, ext>>

\* bikeWithMetadata for a form that hands a bike in for maintenance
bikeWithMetadata_maintenance(userId) ==
    [exists |-> TRUE, status |-> "maintenance", userId |-> userId, clientId |-> NoUser]

\* the document createBikeForUser writes: {...bikeData, createdAt, updatedAt, userId}
bikeWithMetadata(userId) ==
    [exists |-> TRUE, status |-> "available", userId |-> userId, clientId |-> NoUser]

\* await setDoc(bikeRef, bikeWithMetadata)
C_SetDoc(u) ==
    LET c == call[u]
    IN  /\ c.pc = "setDoc"
        /\ IF Granted(u, "create", "bikes", c.bike)
              THEN /\ bikes' = [bikes EXCEPT ![c.bike] = bikeWithMetadata(u)]
                   /\ call' = [call EXCEPT ![u].pc = "associate"]
              ELSE /\ bikes' = bikes
                   /\ call' = [call EXCEPT ![u] = Thrown(@, ErrPermission)]
        /\ UNCHANGED <<users, req, ncalls, ext>>

\* ---------------------------------------------- NewBikeScreen (BikeForm)
\* BikeForm's formData has neither a status nor a userId field
bikeData == [exists |-> TRUE, status |-> Missing, userId |-> NoUser, clientId |-> NoUser]

\* handleSubmit: await addDoc(collection(db, 'bikes'), bikeData), answered
NewBikeScreen_handleSubmit(u) ==
    /\ users[u].exists
    /\ call[u].pc \in Returned
    /\ ncalls < MaxCalls
    /\ ncalls' = ncalls + 1
    /\ \E b \in FreshBikeIds :
          IF Granted(u, "create", "bikes", b)
              THEN /\ bikes' = [bikes EXCEPT ![b] = bikeData]
                   /\ call' = [call EXCEPT ![u] = StartCall("addDoc", "done", b)]
              ELSE /\ bikes' = bikes
                   /\ call' = [call EXCEPT ![u] =
                                  Thrown(StartCall("addDoc", "addDoc", NoBike), ErrPermission)]
    /\ UNCHANGED <<users, req, ext>>

\* ------------------------------------------------------------- ClientList
\* the ClientList screen of one user: the clients it has listed, where its
\* deleteClient stands, the client being deleted and the bikes its query found
IdleScreen == [list |-> {}, pc |-> "idle", client |-> NoClient, snap |-> {},
               alert |-> "none"]

ClientsIdle ==
    /\ clients = [c \in ClientIds |-> FALSE]
    /\ screen = [u \in Uids |-> IdleScreen]

\* ----------------------------------------------------------- sales wizard
\* the two screens that walk through bike, sale details and review and show
\* SaleReview as their last step
Wizards == {"SalesForm", "NewSaleScreen"}

\* the wizard of one user: its sale data (bikeId, clientId), its step, and
\* SaleReview's isSubmitting and position in handleSubmitPurchase
NewWizard(w) ==
    [wizard |-> w, step |-> "bike", bikeId |-> NoBike, clientId |-> NoClient,
     isSubmitting |-> FALSE, pc |-> "idle", alert |-> "none"]

SalesIdle ==
    /\ purchases = {}
    /\ wiz = [u \in Uids |-> NewWizard("none")]

\* ------------------------------------------- JobSheetScanner and BikeList
\* JobSheetScanner: who scans, whether the screen is displayed, the position
\* in takePhoto, the useState values photo, isProcessing and error, the
\* pending setTimeout(() => router.back()) callbacks and the alert shown
NoScanner ==
    [uid |-> NoUser, onScreen |-> FALSE, pc |-> "idle", photo |-> FALSE,
     isProcessing |-> FALSE, error |-> FALSE, timers |-> 0, alert |-> "none"]

\* BikeList: who looks at it, whether the screen has focus, and the useState
\* values bikes, loading, error and refreshing
NoBikeList ==
    [uid |-> NoUser, focused |-> FALSE, list |-> {}, loading |-> TRUE,
     error |-> FALSE, refreshing |-> FALSE]

ScreensIdle ==
    /\ scan = NoScanner
    /\ view = NoBikeList

\* ------------------------------------------------------------ AuthProvider
\* authState: the loaded user (its uid and the role of the loaded data),
\* isAdmin and whether an error message is set
NoSession == [user |-> NoUser, role |-> Missing, isAdmin |-> FALSE, error |-> FALSE]

\* nobody has an account document loaded and nothing is in flight
AuthIdle ==
    /\ accounts = {u \in Uids : users[u].exists}
    /\ fbUser = NoAuth
    /\ auth = NoSession
    /\ tasks = {}

\* what the store can answer to a request: a granted request can still fail
\* (the client is offline, the backend unavailable)
Answers(uid, op, coll, id) ==
    IF Granted(uid, op, coll, id) THEN {"ok", "unavailable"} ELSE {"denied"}

\* setDoc creates the document or overwrites it
WriteOp(userId) == IF users[userId].exists THEN "update" ELSE "create"

Task(fn, pc, uid) == [fn |-> fn, pc |-> pc, uid |-> uid]

\* onAuthStateChanged: the listener is called with the new account and starts
\* its lookup
Notify(u) == IF u = NoAuth THEN {} ELSE {Task("listener", "getDoc", u)}

\* the lookups' setAuthState with isAdmin taken from the previous state
Loaded_keepAdmin(u) ==
    [user |-> u, role |-> users[u].role, isAdmin |-> auth.isAdmin \/ users[u].role = "admin",
     error |-> FALSE]

\* setAuthState({user: userData, isAdmin: userData.role === 'admin', error: null})
Loaded(u) ==
    [user |-> u, role |-> users[u].role, isAdmin |-> users[u].role = "admin",
     error |-> FALSE]

\* the catch of the listener: setAuthState({user: null, isAdmin: false, error})
LookupFailed == [NoSession EXCEPT !.error = TRUE]

AuthUnchanged == UNCHANGED <<users, bikes, call, req, jobs, deployed, clients, screen, purchases, wiz, scan, view>>

\* onAuthStateChanged callback, await getDoc(userDocRef)
Listener_GetDoc(t, ans) ==
    /\ t \in tasks /\ t.fn = "listener" /\ t.pc = "getDoc"
    /\ ans \in Answers(fbUser, "read", "users", t.uid)
    /\ IF ans # "ok"
       THEN auth' = LookupFailed /\ tasks' = tasks \ {t}
       ELSE IF users[t.uid].exists
       THEN auth' = Loaded(t.uid) /\ tasks' = tasks \ {t}
       ELSE auth' = auth /\ tasks' = (tasks \ {t}) \cup {Task("listener", "setDoc", t.uid)}
    /\ UNCHANGED <<accounts, fbUser, ncalls>>
    /\ AuthUnchanged

\* onAuthStateChanged callback, await setDoc(userDocRef, userForFirestore)
Listener_SetDoc(t, ans) ==
    /\ t \in tasks /\ t.fn = "listener" /\ t.pc = "setDoc"
    /\ ans \in Answers(fbUser, WriteOp(t.uid), "users", t.uid)
    /\ IF ans = "ok"
       THEN /\ users' = [users EXCEPT ![t.uid] = UserDoc("user")]
            /\ auth' = [user |-> t.uid, role |-> "user", isAdmin |-> FALSE, error |-> FALSE]
       ELSE /\ users' = users
            /\ auth' = LookupFailed
    /\ tasks' = tasks \ {t}
    /\ UNCHANGED <<accounts, fbUser, ncalls, bikes, call, req, jobs, deployed, clients, screen, purchases, wiz, scan, view>>

\* signUp, await createUserWithEmailAndPassword: an email that has an account
\* is refused
signUp(u) ==
    /\ ncalls < MaxCalls
    /\ ncalls' = ncalls + 1
    /\ IF u \in accounts
       THEN /\ auth' = [auth EXCEPT !.error = TRUE]
            /\ UNCHANGED <<accounts, fbUser, tasks>>
       ELSE /\ accounts' = accounts \cup {u}
            /\ fbUser' = u
            /\ tasks' = tasks \cup Notify(u) \cup {Task("signUp", "setDoc", u)}
            /\ auth' = auth
    /\ AuthUnchanged

\* signUp, await setDoc(doc(db, 'users', uid), userForFirestore)
SignUp_SetDoc(t, ans) ==
    /\ t \in tasks /\ t.fn = "signUp" /\ t.pc = "setDoc"
    /\ ans \in Answers(fbUser, WriteOp(t.uid), "users", t.uid)
    /\ IF ans = "ok"
       THEN /\ users' = [users EXCEPT ![t.uid] = UserDoc("user")]
            /\ auth' = [auth EXCEPT !.user = t.uid, !.role = "user",
                                    !.isAdmin = FALSE, !.error = FALSE]
       ELSE /\ users' = users
            /\ auth' = [auth EXCEPT !.error = TRUE]
    /\ tasks' = tasks \ {t}
    /\ UNCHANGED <<accounts, fbUser, ncalls, bikes, call, req, jobs, deployed, clients, screen, purchases, wiz, scan, view>>

\* logIn, await signInWithEmailAndPassword (ok: the password is right)
logIn(u, ok) ==
    /\ ncalls < MaxCalls
    /\ ncalls' = ncalls + 1
    /\ IF ok /\ u \in accounts
       THEN /\ fbUser' = u
            /\ tasks' = tasks \cup (IF fbUser # u THEN Notify(u) ELSE {})
                              \cup {Task("logIn", "getDoc", u)}
            /\ auth' = auth
       ELSE /\ auth' = [auth EXCEPT !.error = TRUE]
            /\ UNCHANGED <<fbUser, tasks>>
    /\ UNCHANGED accounts
    /\ AuthUnchanged

\* logIn, await getDoc(doc(db, 'users', uid))
LogIn_GetDoc(t, ans) ==
    /\ t \in tasks /\ t.fn = "logIn" /\ t.pc = "getDoc"
    /\ ans \in Answers(fbUser, "read", "users", t.uid)
    /\ IF ans = "ok" /\ users[t.uid].exists
       THEN auth' = Loaded(t.uid)
       ELSE auth' = [auth EXCEPT !.error = TRUE]
    /\ tasks' = tasks \ {t}
    /\ UNCHANGED <<accounts, fbUser, ncalls>>
    /\ AuthUnchanged

\* logOut, await signOut(auth); the listener is called with null
logOut(ok) ==
    /\ ncalls < MaxCalls
    /\ ncalls' = ncalls + 1
    /\ IF ok
       THEN fbUser' = NoAuth /\ auth' = NoSession
       ELSE fbUser' = fbUser /\ auth' = [auth EXCEPT !.error = TRUE]
    /\ UNCHANGED <<accounts, tasks>>
    /\ AuthUnchanged

\* ------------------------------------------------------------ admin screens
\* app/admin/_layout and ManageUsersScreen show the admin screens to a loaded
\* user whose role is 'admin'
AdminScreens == auth.user # NoUser /\ auth.role = "admin"

\* CreateAdminScreen.handleCreateAdmin, await createUserWithEmailAndPassword:
\* the new account becomes the signed-in account of the client
handleCreateAdmin(n) ==
    /\ AdminScreens
    /\ ncalls < MaxCalls
    /\ ncalls' = ncalls + 1
    /\ IF n \in accounts
       THEN UNCHANGED <<accounts, fbUser, tasks>>
       ELSE /\ accounts' = accounts \cup {n}
            /\ fbUser' = n
            /\ tasks' = tasks \cup Notify(n) \cup {Task("createAdminAccount", "getDoc", n)}
    /\ auth' = auth
    /\ AuthUnchanged

\* ManageUsersScreen.handleSetAsAdmin: the list comes from getDocs(users),
\* which the rules deny as a whole; 'Make Admin' is shown for non-admins
handleSetAsAdmin(userId) ==
    /\ AdminScreens
    /\ ~deployed
    /\ users[userId].exists /\ users[userId].role # "admin"
    /\ ncalls < MaxCalls
    /\ ncalls' = ncalls + 1
    /\ tasks' = tasks \cup {Task("setUserAsAdmin", "getDoc", userId)}
    /\ UNCHANGED <<accounts, fbUser, auth>>
    /\ AuthUnchanged

\* setUserAsAdmin and createAdminAccount (the same body), await getDoc(userRef)
SetAdmin_GetDoc(t, ans) ==
    /\ t \in tasks /\ t.fn \in {"setUserAsAdmin", "createAdminAccount"} /\ t.pc = "getDoc"
    /\ ans \in Answers(fbUser, "read", "users", t.uid)
    /\ IF ans = "ok" /\ users[t.uid].exists
       THEN tasks' = (tasks \ {t}) \cup {Task(t.fn, "updateDoc", t.uid)}
       ELSE tasks' = tasks \ {t}
    /\ UNCHANGED <<accounts, fbUser, auth, ncalls>>
    /\ AuthUnchanged

\* setUserAsAdmin and createAdminAccount, await updateDoc(userRef, {role: 'admin'})
SetAdmin_UpdateDoc(t, ans) ==
    /\ t \in tasks /\ t.fn \in {"setUserAsAdmin", "createAdminAccount"} /\ t.pc = "updateDoc"
    /\ ans \in Answers(fbUser, "update", "users", t.uid)
    /\ IF ans = "ok" /\ users[t.uid].exists
       THEN users' = [users EXCEPT ![t.uid].role = "admin"]
       ELSE users' = users
    /\ tasks' = tasks \ {t}
    /\ UNCHANGED <<accounts, fbUser, auth, ncalls, bikes, call, req, jobs, deployed, clients, screen, purchases, wiz, scan, view>>

StoreAnswers == {"ok", "unavailable", "denied"}

InitAuth ==
    /\ users \in [Uids -> UserDocs]
    /\ bikes = [b \in BikeIds |-> NoBikeDoc]
    /\ call = [u \in Uids |-> IdleCall]
    /\ ncalls = 0
    /\ req = NoReq
    /\ jobs = NoJobs
    /\ deployed \in BOOLEAN
    /\ AuthIdle
    /\ ClientsIdle
    /\ SalesIdle
    /\ ScreensIdle

NextAuth ==
    \/ \E u \in Uids : signUp(u)
    \/ \E u \in Uids, ok \in BOOLEAN : logIn(u, ok)
    \/ \E ok \in BOOLEAN : logOut(ok)
    \/ \E n \in Uids : handleCreateAdmin(n)
    \/ \E t \in Uids : handleSetAsAdmin(t)
    \/ \E t \in tasks, ans \in StoreAnswers : Listener_GetDoc(t, ans)
    \/ \E t \in tasks, ans \in StoreAnswers : Listener_SetDoc(t, ans)
    \/ \E t \in tasks, ans \in StoreAnswers : SignUp_SetDoc(t, ans)
    \/ \E t \in tasks, ans \in StoreAnswers : LogIn_GetDoc(t, ans)
    \/ \E t \in tasks, ans \in StoreAnswers : SetAdmin_GetDoc(t, ans)
    \/ \E t \in tasks, ans \in StoreAnswers : SetAdmin_UpdateDoc(t, ans)

SpecAuth == InitAuth /\ [][NextAuth]_vars

\* ------------------------------------------------- ClientList.deleteClient
\* a query over a whole collection is granted only if the rules allow every
\* document it could return: under firestore.rules that is bikes and jobs
\* for an admin, and never clients
QueryGranted(uid, coll) ==
    deployed => (coll \in {"bikes", "jobs"} /\ isAdmin(uid) = T3)

QueryAnswers(uid, coll) ==
    IF QueryGranted(uid, coll) THEN {"ok", "unavailable"} ELSE {"denied"}

\* a batch is granted only if each of its writes is
BatchGranted(uid, bs, clientId) ==
    /\ Granted(uid, "delete", "clients", clientId)
    /\ \A b \in bs : Granted(uid, "update", "bikes", b)

BatchAnswers(uid, bs, clientId) ==
    IF BatchGranted(uid, bs, clientId) THEN {"ok", "unavailable"} ELSE {"denied"}

ScreenUnchanged ==
    UNCHANGED <<users, call, req, jobs, deployed, accounts, fbUser, auth, tasks,
                purchases, wiz, scan, view>>

\* fetchData of ClientList, NewClientScreen: what getDocs(clients) returns
Listing(u) == IF QueryGranted(u, "clients") THEN {c \in ClientIds : clients[c]} ELSE {}

\* deleteClient(clientId) up to its first await: setLoading(true) and the
\* query for the bikes of the client is sent
deleteClient(u, clientId) ==
    /\ ncalls < MaxCalls
    /\ screen[u].pc \notin {"getDocs", "commit"}
    /\ clientId \in screen[u].list
    /\ ncalls' = ncalls + 1
    /\ screen' = [screen EXCEPT ![u] = [@ EXCEPT !.pc = "getDocs", !.client = clientId,
                                                 !.snap = {}, !.alert = "none"]]
    /\ UNCHANGED <<bikes, clients>>
    /\ ScreenUnchanged

\* await getDocs(query(bikes, where('clientId', '==', clientId))), then the
\* batch is prepared from the bikes the query returned
D_GetDocs(u, ans) ==
    /\ screen[u].pc = "getDocs"
    /\ ans \in QueryAnswers(u, "bikes")
    /\ IF ans = "ok"
       THEN screen' = [screen EXCEPT ![u] =
                [@ EXCEPT !.pc = "commit",
                          !.snap = {b \in BikeIds : /\ bikes[b].exists
                                                    /\ bikes[b].clientId = screen[u].client}]]
       ELSE screen' = [screen EXCEPT ![u] = [@ EXCEPT !.pc = "failed", !.alert = "Error"]]
    /\ UNCHANGED <<bikes, clients, ncalls>>
    /\ ScreenUnchanged

\* Committed with the batch putting the client's bikes back in stock
Committed_restock(bs, clientId) ==
    /\ bikes' = [b \in BikeIds |->
                    IF b \in bs
                    THEN [bikes[b] EXCEPT !.clientId = NoClient, !.status = "available"]
                    ELSE bikes[b]]
    /\ clients' = [clients EXCEPT ![clientId] = FALSE]

\* what a committed batch writes: clientId: null on every bike of the
\* query's result, and the client document deleted
Committed(bs, clientId) ==
    /\ bikes' = [b \in BikeIds |->
                    IF b \in bs THEN [bikes[b] EXCEPT !.clientId = NoClient] ELSE bikes[b]]
    /\ clients' = [clients EXCEPT ![clientId] = FALSE]

\* D_Commit with the bike updates and the delete sent one after the other,
\* the delete failing after the updates have been written
D_Commit_oneByOne(u, ans) ==
    /\ screen[u].pc = "commit"
    /\ ans \in BatchAnswers(u, screen[u].snap, screen[u].client)
    /\ IF ans = "ok"
       THEN /\ Committed(screen[u].snap, screen[u].client)
            /\ screen' = [screen EXCEPT ![u] =
                    [@ EXCEPT !.pc = "done", !.alert = "Success",
                              !.list = @ \ {screen[u].client}]]
       ELSE /\ bikes' = [b \in BikeIds |->
                            IF b \in screen[u].snap /\ ans = "unavailable"
                            THEN [bikes[b] EXCEPT !.clientId = NoClient] ELSE bikes[b]]
            /\ clients' = clients
            /\ screen' = [screen EXCEPT ![u] = [@ EXCEPT !.pc = "failed", !.alert = "Error"]]
    /\ UNCHANGED ncalls
    /\ ScreenUnchanged

\* await batch.commit(): all the writes of the batch or none; then the
\* client leaves the list and 'Success' is shown, or the catch shows the error
D_Commit(u, ans) ==
    /\ screen[u].pc = "commit"
    /\ ans \in BatchAnswers(u, screen[u].snap, screen[u].client)
    /\ IF ans = "ok"
       THEN /\ Committed(screen[u].snap, screen[u].client)
            /\ screen' = [screen EXCEPT ![u] =
                    [@ EXCEPT !.pc = "done", !.alert = "Success",
                              !.list = @ \ {screen[u].client}]]
       ELSE /\ UNCHANGED <<bikes, clients>>
            /\ screen' = [screen EXCEPT ![u] = [@ EXCEPT !.pc = "failed", !.alert = "Error"]]
    /\ UNCHANGED ncalls
    /\ ScreenUnchanged

\* BikeSelector onChange in the edit mode of a listed client:
\* updateDoc(bikes/bike.id, {clientId: selectedClient.id, clientName})
BikeSelector_onChange(u, b, selectedClient, ans) ==
    /\ ncalls < MaxCalls
    /\ screen[u].pc \notin {"getDocs", "commit"}
    /\ selectedClient \in screen[u].list
    /\ bikes[b].exists
    /\ ans \in Answers(u, "update", "bikes", b)
    /\ ncalls' = ncalls + 1
    /\ IF ans = "ok"
       THEN bikes' = [bikes EXCEPT ![b].clientId = selectedClient]
       ELSE bikes' = bikes
    /\ UNCHANGED <<clients, screen>>
    /\ ScreenUnchanged

\* bikes in stock, none of them owned by a user, each with no client or with
\* a client that exists; every screen has listed the clients
InitClients ==
    /\ users \in [Uids -> {UserDoc(r) : r \in Roles}]
    /\ deployed \in BOOLEAN
    /\ clients \in [ClientIds -> BOOLEAN]
    /\ bikes \in [BikeIds -> [exists : {TRUE}, status : {"available"}, userId : {NoUser},
                              clientId : {NoClient} \cup {c \in ClientIds : clients[c]}]]
    /\ screen = [u \in Uids |-> [IdleScreen EXCEPT !.list = Listing(u)]]
    /\ call = [u \in Uids |-> IdleCall]
    /\ ncalls = 0
    /\ req = NoReq
    /\ jobs = NoJobs
    /\ AuthIdle
    /\ SalesIdle
    /\ ScreensIdle

NextClients ==
    \/ \E u \in Uids, c \in ClientIds : deleteClient(u, c)
    \/ \E u \in Uids, ans \in StoreAnswers : D_GetDocs(u, ans)
    \/ \E u \in Uids, ans \in StoreAnswers : D_Commit(u, ans)
    \/ \E u \in Uids, b \in BikeIds, c \in ClientIds, ans \in StoreAnswers :
          BikeSelector_onChange(u, b, c, ans)

SpecClients == InitClients /\ [][NextClients]_vars

\* ----------------------------------------------------------- sales wizard
SalesUnchanged ==
    UNCHANGED <<call, req, jobs, deployed, accounts, fbUser, auth, clients, screen,
                scan, view>>

\* handleBikeSubmit of the wizard: SalesForm stores bike.id as bikeId,
\* NewSaleScreen spreads the bike into the sale data, which leaves bikeId unset
BikeSubmitted(w, b) ==
    [w EXCEPT !.bikeId = IF w.wizard = "SalesForm" THEN b ELSE NoBike,
              !.step = "sale"]

\* BikeDetailsForm: a bike of the list (getDocs of all bikes) is pressed
handleBikeSubmit(u, b) ==
    /\ wiz[u].wizard \in Wizards /\ wiz[u].step = "bike"
    /\ QueryGranted(u, "bikes")
    /\ bikes[b].exists
    /\ wiz' = [wiz EXCEPT ![u] = BikeSubmitted(@, b)]
    /\ UNCHANGED <<users, bikes, purchases, tasks, ncalls>>
    /\ SalesUnchanged

\* the document of the manual entry: status 'available', no userId
manualBike == [exists |-> TRUE, status |-> "available", userId |-> NoUser,
               clientId |-> NoClient]

\* BikeDetailsForm.handleManualSubmit: await addDoc(collection(db, 'bikes'),
\* {..., status: 'available'}), then onSubmit with the new id
handleManualSubmit(u, ans) ==
    /\ wiz[u].wizard \in Wizards /\ wiz[u].step = "bike"
    /\ \E b \in FreshBikeIds :
          /\ ans \in Answers(u, "create", "bikes", b)
          /\ IF ans = "ok"
             THEN /\ bikes' = [bikes EXCEPT ![b] = manualBike]
                  /\ wiz' = [wiz EXCEPT ![u] = BikeSubmitted(@, b)]
             ELSE /\ bikes' = bikes
                  /\ wiz' = [wiz EXCEPT ![u].alert = "Error"]
    /\ UNCHANGED <<users, purchases, tasks, ncalls>>
    /\ SalesUnchanged

\* SaleDetailsForm.handleSubmit: a sale without a client is a validation
\* error; the clients to select from come from getDocs(clients)
SaleDetailsForm_handleSubmit(u, c) ==
    /\ wiz[u].wizard \in Wizards /\ wiz[u].step = "sale"
    /\ c \in Listing(u) \cup {NoClient}
    /\ wiz' = [wiz EXCEPT ![u] =
          IF c = NoClient THEN [@ EXCEPT !.alert = "Validation Error"]
          ELSE [@ EXCEPT !.clientId = c, !.step = "review", !.alert = "none"]]
    /\ UNCHANGED <<users, bikes, purchases, tasks, ncalls>>
    /\ SalesUnchanged

\* SaleReview: 'Complete Sale' is pressed (the button is disabled while
\* isSubmitting); handleSubmitPurchase up to its first await
handleSubmitPurchase(u) ==
    /\ wiz[u].step = "review"
    /\ ~wiz[u].isSubmitting
    /\ ncalls < MaxCalls
    /\ ncalls' = ncalls + 1
    /\ wiz' = [wiz EXCEPT ![u] = [@ EXCEPT !.isSubmitting = TRUE, !.pc = "addDoc",
                                           !.alert = "none"]]
    /\ UNCHANGED <<users, bikes, purchases, tasks>>
    /\ SalesUnchanged

\* the end of handleSubmitPurchase: router.push('/') and 'Success', or the
\* catch's 'Error'; finally setIsSubmitting(false)
Submitted(w, ok) ==
    [w EXCEPT !.isSubmitting = FALSE, !.pc = "idle",
              !.alert = IF ok THEN "Success" ELSE "Error",
              !.step = IF ok THEN "done" ELSE w.step]

\* purchaseData written with the status of a sale that is still open
purchaseData_pending(w) ==
    [id |-> Cardinality(purchases) + 1, bikeId |-> w.bikeId, clientId |-> w.clientId,
     status |-> "pending"]

\* purchaseData: bikeId and clientId of the sale data, 'N/A' for a missing one
purchaseData(w) ==
    [id |-> Cardinality(purchases) + 1, bikeId |-> w.bikeId, clientId |-> w.clientId,
     status |-> "completed"]

\* await addDoc(collection(db, 'purchases'), purchaseData)
S_AddDoc(u, ans) ==
    /\ wiz[u].pc = "addDoc"
    /\ ans \in Answers(u, "create", "purchases", NoBike)
    /\ IF ans = "ok"
       THEN /\ purchases' = purchases \cup {purchaseData(wiz[u])}
            /\ wiz' = [wiz EXCEPT ![u] =
                  IF @.bikeId # NoBike THEN [@ EXCEPT !.pc = "updateDoc"]
                  ELSE Submitted(@, TRUE)]
       ELSE /\ purchases' = purchases
            /\ wiz' = [wiz EXCEPT ![u] = Submitted(@, FALSE)]
    /\ UNCHANGED <<users, bikes, tasks, ncalls>>
    /\ SalesUnchanged

\* await updateDoc(doc(db, 'bikes', data.bikeId), {status: 'sold', saleId})
S_UpdateDoc(u, ans) ==
    LET b == wiz[u].bikeId
        ok == ans = "ok" /\ bikes[b].exists
    IN  /\ wiz[u].pc = "updateDoc"
        /\ ans \in Answers(u, "update", "bikes", b)
        /\ bikes' = IF ok THEN [bikes EXCEPT ![b].status = "sold"] ELSE bikes
        /\ wiz' = [wiz EXCEPT ![u] = Submitted(@, ok)]
        /\ UNCHANGED <<users, purchases, tasks, ncalls>>
        /\ SalesUnchanged

\* -------------------------------------------------- storefront: Buy Now
\* one invocation of handleBikeOrder; the Buy Now button has no disabled
\* state, so a user can have several in flight
Order(n, u, b) ==
    [id |-> n, fn |-> "purchaseBikeForUser", pc |-> "getUser", uid |-> u,
     bike |-> b, uex |-> FALSE]

Orders(u) == {t \in tasks : t.fn = "purchaseBikeForUser" /\ t.uid = u}

\* a number that tells the invocations in flight apart
OrderId == CHOOSE n \in 1..(Cardinality(tasks) + 1) : \A t \in tasks : t.id # n

\* Buy Now is pressed: handleBikeOrder calls purchaseBikeForUser(user.id, bike.id)
BuyNow(u, b) ==
    /\ users[u].exists
    /\ ncalls < MaxCalls
    /\ ncalls' = ncalls + 1
    /\ Listed(b)
    /\ tasks' = tasks \cup {Order(OrderId, u, b)}
    /\ UNCHANGED <<users, bikes, purchases, wiz>>
    /\ SalesUnchanged

\* purchaseBikeForUser, const userDoc = await getDoc(userRef)
BuyNow_GetUser(t) ==
    /\ t \in tasks /\ t.fn = "purchaseBikeForUser" /\ t.pc = "getUser"
    /\ tasks' = IF Granted(t.uid, "read", "users", t.uid)
                THEN (tasks \ {t}) \cup {[t EXCEPT !.pc = "getBike",
                                                   !.uex = users[t.uid].exists]}
                ELSE tasks \ {t}
    /\ UNCHANGED <<users, bikes, purchases, wiz, ncalls>>
    /\ SalesUnchanged

\* purchaseBikeForUser, const bikeDoc = await getDoc(bikeRef) and the checks
BuyNow_GetBike(t) ==
    LET e == IF Granted(t.uid, "read", "bikes", t.bike)
                 THEN purchaseCheck(t.uex, bikes[t.bike])
                 ELSE ErrPermission
    IN  /\ t \in tasks /\ t.fn = "purchaseBikeForUser" /\ t.pc = "getBike"
        /\ tasks' = IF e = NoErr
                    THEN (tasks \ {t}) \cup {[t EXCEPT !.pc = "updateBike"]}
                    ELSE tasks \ {t}
        /\ UNCHANGED <<users, bikes, purchases, wiz, ncalls>>
        /\ SalesUnchanged

\* purchaseBikeForUser, await updateDoc(bikeRef, {status: 'sold', clientId: userId})
BuyNow_UpdateBike(t) ==
    LET e == updateBikeError(t.uid, t.bike)
    IN  /\ t \in tasks /\ t.fn = "purchaseBikeForUser" /\ t.pc = "updateBike"
        /\ IF e = NoErr
           THEN /\ bikes' = [bikes EXCEPT ![t.bike].status = "sold",
                                          ![t.bike].clientId = t.uid]
                /\ tasks' = (tasks \ {t}) \cup {[t EXCEPT !.pc = "associate"]}
           ELSE /\ bikes' = bikes
                /\ tasks' = tasks \ {t}
        /\ UNCHANGED <<users, purchases, wiz, ncalls>>
        /\ SalesUnchanged

\* purchaseBikeForUser, await associateBikeWithUser(userId, bikeId)
BuyNow_Associate(t) ==
    /\ t \in tasks /\ t.fn = "purchaseBikeForUser" /\ t.pc = "associate"
    /\ users' = IF associateError(t.uid) = NoErr
                THEN associateBikeWithUser(t.uid, t.bike)
                ELSE users
    /\ tasks' = tasks \ {t}
    /\ UNCHANGED <<bikes, purchases, wiz, ncalls>>
    /\ SalesUnchanged

\* a bike that an earlier sale has sold
soldBike == [manualBike EXCEPT !.status = "sold"]

\* bikes in stock, sold or not yet created; one user has a wizard open
InitSales ==
    /\ users \in [Uids -> {UserDoc(r) : r \in Roles}]
    /\ deployed \in BOOLEAN
    /\ clients \in [ClientIds -> BOOLEAN]
    /\ bikes \in [BikeIds -> {NoBikeDoc, manualBike, soldBike}]
    /\ screen = [u \in Uids |-> IdleScreen]
    /\ purchases = {}
    /\ \E u \in Uids, w \in Wizards :
          wiz = [x \in Uids |-> IF x = u THEN NewWizard(w) ELSE NewWizard("none")]
    /\ call = [u \in Uids |-> IdleCall]
    /\ ncalls = 0
    /\ req = NoReq
    /\ jobs = NoJobs
    /\ AuthIdle
    /\ ScreensIdle

NextSales ==
    \/ \E u \in Uids, b \in BikeIds : handleBikeSubmit(u, b)
    \/ \E u \in Uids, ans \in StoreAnswers : handleManualSubmit(u, ans)
    \/ \E u \in Uids, c \in ClientIds \cup {NoClient} : SaleDetailsForm_handleSubmit(u, c)
    \/ \E u \in Uids : handleSubmitPurchase(u)
    \/ \E u \in Uids, ans \in StoreAnswers : S_AddDoc(u, ans)
    \/ \E u \in Uids, ans \in StoreAnswers : S_UpdateDoc(u, ans)

SpecSales == InitSales /\ [][NextSales]_vars

\* the storefront: users with their documents, bikes in stock or not yet
\* created
InitStore ==
    /\ users \in [Uids -> {UserDoc(r) : r \in Roles}]
    /\ deployed \in BOOLEAN
    /\ bikes \in [BikeIds -> {NoBikeDoc, manualBike}]
    /\ call = [u \in Uids |-> IdleCall]
    /\ ncalls = 0
    /\ req = NoReq
    /\ jobs = NoJobs
    /\ AuthIdle
    /\ ClientsIdle
    /\ SalesIdle
    /\ ScreensIdle

NextStore ==
    \/ \E u \in Uids, b \in BikeIds : BuyNow(u, b)
    \/ \E t \in tasks : BuyNow_GetUser(t)
    \/ \E t \in tasks : BuyNow_GetBike(t)
    \/ \E t \in tasks : BuyNow_UpdateBike(t)
    \/ \E t \in tasks : BuyNow_Associate(t)

SpecStore == InitStore /\ [][NextStore]_vars

\* ------------------------------------------------------------------ jobs
JobsUnchanged ==
    UNCHANGED <<bikes, call, req, deployed, accounts, fbUser, auth, clients, screen,
                purchases, wiz, view>>

\* doc(db, 'jobs', Date.now().toString()) and addDoc's generated id: an id no
\* document has yet and no pending createJobForUser call has taken
FreshJobIds ==
    LET unused == {j \in JobIds :
                      /\ ~jobs[j].exists
                      /\ \A t \in tasks : ~(t.fn = "createJobForUser" /\ t.job = j)}
    IN  {j \in unused : \A x \in unused : j <= x}

JobTask(pc, u, j) == [fn |-> "createJobForUser", pc |-> pc, uid |-> u, job |-> j]

\* NewJobScreen.handleSubmit: a complete form of a loaded user calls
\* createJobForUser(user.id, {...}), up to its first await
NewJobScreen_handleSubmit(u) ==
    /\ users[u].exists
    /\ ncalls < MaxCalls
    /\ ncalls' = ncalls + 1
    /\ \E j \in FreshJobIds : tasks' = tasks \cup {JobTask("setDoc", u, j)}
    /\ UNCHANGED <<users, jobs, scan>>
    /\ JobsUnchanged

\* the document createJobForUser writes: {...jobData, createdAt, updatedAt, userId}
jobWithMetadata(userId) == [exists |-> TRUE, userId |-> userId]

\* createJobForUser, await setDoc(jobRef, jobWithMetadata)
J_SetDoc(t, ans) ==
    /\ t \in tasks /\ t.fn = "createJobForUser" /\ t.pc = "setDoc"
    /\ ans \in Answers(t.uid, "create", "jobs", t.job)
    /\ IF ans = "ok"
       THEN /\ jobs' = [jobs EXCEPT ![t.job] = jobWithMetadata(t.uid)]
            /\ tasks' = (tasks \ {t}) \cup {JobTask("associate", t.uid, t.job)}
       ELSE /\ jobs' = jobs
            /\ tasks' = tasks \ {t}
    /\ UNCHANGED <<users, scan, ncalls>>
    /\ JobsUnchanged

\* associateJobWithUser: updateDoc(userRef, {jobs: arrayUnion(jobId)})
associateJobWithUser(userId, jobId) ==
    [users EXCEPT ![userId].jobs = @ \cup {jobId}]

\* createJobForUser, await associateJobWithUser(userId, jobRef.id)
J_Associate(t, ans) ==
    /\ t \in tasks /\ t.fn = "createJobForUser" /\ t.pc = "associate"
    /\ ans \in Answers(t.uid, "update", "users", t.uid)
    /\ users' = IF ans = "ok" /\ users[t.uid].exists
                THEN associateJobWithUser(t.uid, t.job)
                ELSE users
    /\ tasks' = tasks \ {t}
    /\ UNCHANGED <<jobs, scan, ncalls>>
    /\ JobsUnchanged

\* the document of JobForm and of the scanner: the form's or the sheet's
\* fields, createdAt, updatedAt and status 'pending'; no userId
jobData == [exists |-> TRUE, userId |-> NoUser]

\* JobForm.handleSubmit with valid fields: await addDoc(collection(db, 'jobs'),
\* jobData), answered
JobForm_handleSubmit(u, ans) ==
    /\ users[u].exists
    /\ ncalls < MaxCalls
    /\ ncalls' = ncalls + 1
    /\ \E j \in FreshJobIds :
          /\ ans \in Answers(u, "create", "jobs", j)
          /\ jobs' = IF ans = "ok" THEN [jobs EXCEPT ![j] = jobData] ELSE jobs
    /\ UNCHANGED <<users, tasks, scan>>
    /\ JobsUnchanged

\* ---------------------------------------------------------- JobSheetScanner
\* what the OCR request returns: the HTTP status is ok or not; the text of
\* the first candidate is absent, has no {...} in it, has a {...} that
\* JSON.parse rejects, or has a JSON object, with or without customerName
\* and customerPhone
Responses ==
    [ok : BOOLEAN, text : {"none", "prose", "braces", "json"},
     customerName : BOOLEAN, customerPhone : BOOLEAN]

\* the checks of takePhoto between the fetch and the addDoc: the error
\* thrown, or "save"
processResponse(r) ==
    IF ~r.ok THEN "API error"
    ELSE IF r.text = "none" THEN "No text was extracted"
    ELSE IF r.text = "prose" THEN "Could not parse job sheet information"
    ELSE IF r.text = "braces" THEN "Failed to parse job sheet data"
    ELSE IF ~r.customerName /\ ~r.customerPhone THEN "Failed to parse job sheet data"
    ELSE "save"

\* the outer catch and the finally of takePhoto: setError(...),
\* setTimeout(() => router.back(), 5000), setIsProcessing(false)
Failed(s) ==
    [s EXCEPT !.error = TRUE, !.timers = @ + 1, !.isProcessing = FALSE, !.pc = "idle"]

\* the screen is opened: fresh state, useEffect calls launchCamera, which asks
\* for the camera permission and calls takePhoto
launchCamera(perm) ==
    /\ scan.uid # NoUser /\ ~scan.onScreen /\ scan.pc = "idle"
    /\ ncalls < MaxCalls
    /\ ncalls' = ncalls + 1
    /\ scan' = LET s == [NoScanner EXCEPT !.uid = scan.uid, !.timers = scan.timers]
               IN  CASE perm = "granted" -> [s EXCEPT !.onScreen = TRUE, !.pc = "camera"]
                     [] perm = "refused" -> [s EXCEPT !.alert = "Permission required"]
                     [] OTHER -> [s EXCEPT !.onScreen = TRUE, !.error = TRUE,
                                           !.timers = @ + 1]
    /\ UNCHANGED <<users, jobs, tasks>>
    /\ JobsUnchanged

\* 'Retake Photo' (shown if error && !isProcessing) calls takePhoto
retakeButton ==
    /\ scan.onScreen /\ scan.error /\ ~scan.isProcessing /\ scan.pc = "idle"
    /\ ncalls < MaxCalls
    /\ ncalls' = ncalls + 1
    /\ scan' = [scan EXCEPT !.pc = "camera"]
    /\ UNCHANGED <<users, jobs, tasks>>
    /\ JobsUnchanged

\* 'Scan Another' of the success alert: setPhoto(null), setError(null), takePhoto
scanAnother ==
    /\ scan.onScreen /\ scan.alert = "Success" /\ scan.pc = "idle"
    /\ ncalls < MaxCalls
    /\ ncalls' = ncalls + 1
    /\ scan' = [scan EXCEPT !.pc = "camera", !.photo = FALSE, !.error = FALSE,
                            !.alert = "none"]
    /\ UNCHANGED <<users, jobs, tasks>>
    /\ JobsUnchanged

\* takePhoto, await ImagePicker.launchCameraAsync
takePhoto_Camera(result) ==
    /\ scan.pc = "camera"
    /\ scan' = CASE result = "canceled" -> [scan EXCEPT !.pc = "idle", !.onScreen = FALSE]
                 [] result = "photo" -> [scan EXCEPT !.pc = "fetch", !.photo = TRUE,
                                                     !.isProcessing = TRUE]
                 [] OTHER -> Failed(scan)
    /\ UNCHANGED <<users, jobs, tasks, ncalls>>
    /\ JobsUnchanged

\* takePhoto, await fetch(...) and the checks of the response
takePhoto_Fetch(r) ==
    /\ scan.pc = "fetch"
    /\ scan' = IF processResponse(r) = "save"
               THEN [scan EXCEPT !.pc = "addDoc"]
               ELSE Failed(scan)
    /\ UNCHANGED <<users, jobs, tasks, ncalls>>
    /\ JobsUnchanged

\* takePhoto, await addDoc(collection(db, 'jobs'), jobData); a rejection is
\* rethrown by the inner catch
takePhoto_AddDoc(ans) ==
    /\ scan.pc = "addDoc"
    /\ \E j \in FreshJobIds :
          /\ ans \in Answers(scan.uid, "create", "jobs", j)
          /\ IF ans = "ok"
             THEN /\ jobs' = [jobs EXCEPT ![j] = jobData]
                  /\ scan' = [scan EXCEPT !.pc = "idle", !.isProcessing = FALSE,
                                          !.alert = "Success"]
             ELSE /\ jobs' = jobs
                  /\ scan' = Failed(scan)
    /\ UNCHANGED <<users, tasks, ncalls>>
    /\ JobsUnchanged

\* a setTimeout callback runs: router.back()
routerBack ==
    /\ scan.timers > 0
    /\ scan' = [scan EXCEPT !.timers = @ - 1, !.onScreen = FALSE]
    /\ UNCHANGED <<users, jobs, tasks, ncalls>>
    /\ JobsUnchanged

\* users with their documents, no jobs yet; one of them has the scanner
InitJobs ==
    /\ users \in [Uids -> {UserDoc(r) : r \in Roles}]
    /\ deployed \in BOOLEAN
    /\ bikes = [b \in BikeIds |-> NoBikeDoc]
    /\ call = [u \in Uids |-> IdleCall]
    /\ ncalls = 0
    /\ req = NoReq
    /\ jobs = NoJobs
    /\ AuthIdle
    /\ ClientsIdle
    /\ SalesIdle
    /\ view = NoBikeList
    /\ \E u \in Uids : scan = [NoScanner EXCEPT !.uid = u]

NextJobs ==
    \/ \E u \in Uids : NewJobScreen_handleSubmit(u)
    \/ \E t \in tasks, ans \in StoreAnswers : J_SetDoc(t, ans)
    \/ \E t \in tasks, ans \in StoreAnswers : J_Associate(t, ans)
    \/ \E u \in Uids, ans \in StoreAnswers : JobForm_handleSubmit(u, ans)
    \/ \E perm \in {"granted", "refused", "throws"} : launchCamera(perm)
    \/ retakeButton
    \/ scanAnother
    \/ \E result \in {"canceled", "photo", "no image"} : takePhoto_Camera(result)
    \/ \E r \in Responses : takePhoto_Fetch(r)
    \/ \E ans \in StoreAnswers : takePhoto_AddDoc(ans)
    \/ routerBack

SpecJobs == InitJobs /\ [][NextJobs]_vars

\* ---------------------------------------------------------------- BikeList
ListUnchanged ==
    UNCHANGED <<users, bikes, call, req, jobs, deployed, accounts, fbUser, auth,
                clients, screen, purchases, wiz, scan>>

\* one run of the focus effect's fetchBikes with the isActive of its closure,
\* or one run of handleRefresh
Fetch(fn, n, isActive) == [fn |-> fn, id |-> n, isActive |-> isActive]

\* a number that tells the requests in flight apart
FetchId == CHOOSE n \in 1..(Cardinality(tasks) + 1) : \A t \in tasks : t.id # n

\* what getDocs(query(collection(db, 'bikes'))) returns
querySnapshot == {b \in BikeIds : bikes[b].exists}

\* useFocusEffect: the screen gains focus; isActive = true, fetchBikes() runs
\* to its await (setLoading(true))
useFocusEffect ==
    /\ view.uid # NoUser /\ ~view.focused
    /\ ncalls < MaxCalls
    /\ ncalls' = ncalls + 1
    /\ view' = [view EXCEPT !.focused = TRUE, !.loading = TRUE]
    /\ tasks' = tasks \cup {Fetch("fetchBikes", FetchId, TRUE)}
    /\ ListUnchanged

\* the cleanup of the focus effect (blur or unmount): isActive = false
cleanup ==
    /\ view.focused
    /\ view' = [view EXCEPT !.focused = FALSE]
    /\ tasks' = {IF t.fn = "fetchBikes" THEN [t EXCEPT !.isActive = FALSE] ELSE t :
                    t \in tasks}
    /\ UNCHANGED ncalls
    /\ ListUnchanged

\* fetchBikes whose finally sets loading whatever isActive is
fetchBikes_GetDocs_finally(t, ans) ==
    /\ t \in tasks /\ t.fn = "fetchBikes"
    /\ ans \in QueryAnswers(view.uid, "bikes")
    /\ view' = IF ~t.isActive THEN [view EXCEPT !.loading = FALSE]
               ELSE IF ans = "ok"
               THEN [view EXCEPT !.list = querySnapshot, !.error = FALSE, !.loading = FALSE]
               ELSE [view EXCEPT !.error = TRUE, !.loading = FALSE]
    /\ tasks' = tasks \ {t}
    /\ UNCHANGED ncalls
    /\ ListUnchanged

\* fetchBikes, await getDocs(q) resolves or rejects; every state update is
\* behind isActive
fetchBikes_GetDocs(t, ans) ==
    /\ t \in tasks /\ t.fn = "fetchBikes"
    /\ ans \in QueryAnswers(view.uid, "bikes")
    /\ view' = IF ~t.isActive THEN view
               ELSE IF ans = "ok"
               THEN [view EXCEPT !.list = querySnapshot, !.error = FALSE, !.loading = FALSE]
               ELSE [view EXCEPT !.error = TRUE, !.loading = FALSE]
    /\ tasks' = tasks \ {t}
    /\ UNCHANGED ncalls
    /\ ListUnchanged

\* handleRefresh (pull to refresh on the displayed list) to its await
handleRefresh ==
    /\ view.focused /\ ~view.loading /\ ~view.error /\ ~view.refreshing
    /\ ncalls < MaxCalls
    /\ ncalls' = ncalls + 1
    /\ view' = [view EXCEPT !.refreshing = TRUE]
    /\ tasks' = tasks \cup {Fetch("handleRefresh", FetchId, TRUE)}
    /\ ListUnchanged

\* handleRefresh, await getDocs(q): its isActive is never set to false
handleRefresh_GetDocs(t, ans) ==
    /\ t \in tasks /\ t.fn = "handleRefresh"
    /\ ans \in QueryAnswers(view.uid, "bikes")
    /\ view' = IF ans = "ok"
               THEN [view EXCEPT !.list = querySnapshot, !.refreshing = FALSE]
               ELSE [view EXCEPT !.error = TRUE, !.refreshing = FALSE]
    /\ tasks' = tasks \ {t}
    /\ UNCHANGED ncalls
    /\ ListUnchanged

\* bikes in the store or not; one user has the BikeList, not yet focused
InitList ==
    /\ users \in [Uids -> {UserDoc(r) : r \in Roles}]
    /\ deployed \in BOOLEAN
    /\ bikes \in [BikeIds -> {NoBikeDoc, manualBike}]
    /\ call = [u \in Uids |-> IdleCall]
    /\ ncalls = 0
    /\ req = NoReq
    /\ jobs = NoJobs
    /\ AuthIdle
    /\ ClientsIdle
    /\ SalesIdle
    /\ scan = NoScanner
    /\ \E u \in Uids : view = [NoBikeList EXCEPT !.uid = u]

NextList ==
    \/ useFocusEffect
    \/ cleanup
    \/ \E t \in tasks, ans \in StoreAnswers : fetchBikes_GetDocs(t, ans)
    \/ handleRefresh
    \/ \E t \in tasks, ans \in StoreAnswers : handleRefresh_GetDocs(t, ans)

SpecList == InitList /\ [][NextList]_vars

\* ------------------------------------------------ clients and sales together
\* firebase deploy --only firestore:rules: from now on the store applies
\* firestore.rules
deploy ==
    /\ ~deployed
    /\ deployed' = TRUE
    /\ UNCHANGED <<users, bikes, call, ncalls, req, jobs, accounts, fbUser, auth, tasks,
                   clients, screen, purchases, wiz, scan, view>>

\* rules not yet deployed; bikes in stock, with no client or with a client
\* that exists; one user has the ClientList with the clients listed, or a
\* sales wizard open
InitBackOffice ==
    /\ users \in [Uids -> {UserDoc(r) : r \in Roles}]
    /\ deployed = FALSE
    /\ clients \in [ClientIds -> BOOLEAN]
    /\ bikes \in [BikeIds -> {NoBikeDoc} \cup
                              {[manualBike EXCEPT !.clientId = c] :
                                  c \in {NoClient} \cup {x \in ClientIds : clients[x]}}]
    /\ purchases = {}
    /\ \E u \in Uids :
          \/ /\ screen = [x \in Uids |-> IF x = u
                                          THEN [IdleScreen EXCEPT !.list = Listing(u)]
                                          ELSE IdleScreen]
             /\ wiz = [x \in Uids |-> NewWizard("none")]
          \/ /\ screen = [x \in Uids |-> IdleScreen]
             /\ \E w \in Wizards :
                   wiz = [x \in Uids |-> IF x = u THEN NewWizard(w) ELSE NewWizard("none")]
    /\ call = [u \in Uids |-> IdleCall]
    /\ ncalls = 0
    /\ req = NoReq
    /\ jobs = NoJobs
    /\ AuthIdle
    /\ ScreensIdle

\* deleteClient and the sales wizard's submission on the same store, and the
\* deployment of the rules
NextBackOffice ==
    \/ deploy
    \/ \E u \in Uids, c \in ClientIds : deleteClient(u, c)
    \/ \E u \in Uids, ans \in StoreAnswers : D_GetDocs(u, ans)
    \/ \E u \in Uids, ans \in StoreAnswers : D_Commit(u, ans)
    \/ \E u \in Uids, b \in BikeIds : handleBikeSubmit(u, b)
    \/ \E u \in Uids, c \in ClientIds \cup {NoClient} : SaleDetailsForm_handleSubmit(u, c)
    \/ \E u \in Uids : handleSubmitPurchase(u)
    \/ \E u \in Uids, ans \in StoreAnswers : S_AddDoc(u, ans)
    \/ \E u \in Uids, ans \in StoreAnswers : S_UpdateDoc(u, ans)

SpecBackOffice == InitBackOffice /\ [][NextBackOffice]_vars

\* ------------------------------------- purchases, sales and clients together
\* the rules are not deployed and every client exists; a bike is in stock
\* with no client, or sold to a client; one customer has signed up and buys
\* from the storefront; one user has the ClientList with the clients listed,
\* or a sales wizard open
InitShop ==
    /\ users = [u \in Uids |-> IF u = 1 THEN UserDoc("user") ELSE NoUserDoc]
    /\ deployed = FALSE
    /\ clients = [c \in ClientIds |-> TRUE]
    /\ bikes \in [BikeIds -> {manualBike} \cup
                              {[soldBike EXCEPT !.clientId = c] : c \in ClientIds}]
    /\ purchases = {}
    /\ \E u \in Uids :
          \/ /\ screen = [x \in Uids |-> IF x = u
                                          THEN [IdleScreen EXCEPT !.list = Listing(u)]
                                          ELSE IdleScreen]
             /\ wiz = [x \in Uids |-> NewWizard("none")]
          \/ /\ screen = [x \in Uids |-> IdleScreen]
             /\ \E w \in Wizards :
                   wiz = [x \in Uids |-> IF x = u THEN NewWizard(w) ELSE NewWizard("none")]
    /\ call = [u \in Uids |-> IdleCall]
    /\ ncalls = 0
    /\ req = NoReq
    /\ jobs = NoJobs
    /\ AuthIdle
    /\ ScreensIdle

NextShop ==
    \/ \E u \in Uids, b \in BikeIds : handleBikeOrder(u, b)
    \/ \E u \in Uids : P_GetUser(u)
    \/ \E u \in Uids : P_GetBike(u)
    \/ \E u \in Uids : P_UpdateBike(u)
    \/ \E u \in Uids : Associate(u)
    \/ \E u \in Uids : Fail(u)
    \/ \E u \in Uids, c \in ClientIds : deleteClient(u, c)
    \/ \E u \in Uids, ans \in StoreAnswers : D_GetDocs(u, ans)
    \/ \E u \in Uids, ans \in StoreAnswers : D_Commit(u, ans)
    \/ \E u \in Uids, b \in BikeIds, c \in ClientIds, ans \in StoreAnswers :
          BikeSelector_onChange(u, b, c, ans)
    \/ \E u \in Uids, b \in BikeIds : handleBikeSubmit(u, b)
    \/ \E u \in Uids, c \in ClientIds \cup {NoClient} : SaleDetailsForm_handleSubmit(u, c)
    \/ \E u \in Uids : handleSubmitPurchase(u)
    \/ \E u \in Uids, ans \in StoreAnswers : S_AddDoc(u, ans)
    \/ \E u \in Uids, ans \in StoreAnswers : S_UpdateDoc(u, ans)

SpecShop == InitShop /\ [][NextShop]_vars

\* ------------------------------------------------------------ the program
Init ==
    /\ users \in [Uids -> {UserDoc(r) : r \in Roles}]
    /\ bikes = [b \in BikeIds |-> NoBikeDoc]
    /\ call = [u \in Uids |-> IdleCall]
    /\ ncalls = 0
    /\ req = NoReq
    /\ jobs = NoJobs
    /\ deployed = TRUE
    /\ AuthIdle
    /\ ClientsIdle
    /\ SalesIdle
    /\ ScreensIdle

Next ==
    \/ \E u \in Uids, b \in BikeIds : handleBikeOrder(u, b)
    \/ \E u \in Uids : P_GetUser(u)
    \/ \E u \in Uids : P_GetBike(u)
    \/ \E u \in Uids : P_UpdateBike(u)
    \/ \E u \in Uids : handleSubmit(u)
    \/ \E u \in Uids : C_GetUser(u)
    \/ \E u \in Uids : C_SetDoc(u)
    \/ \E u \in Uids : Associate(u)
    \/ \E u \in Uids : Fail(u)
    \/ \E u \in Uids : NewBikeScreen_handleSubmit(u)

Spec == Init /\ [][Next]_vars

\* ------------------------------------------------- the rules as a function
\* Any client may put any request to the store.  The rules decide it from
\* the requester, the operation, the addressed document and the requester's
\* own user document; the inputs are drawn from every shape those can have.
BikeDocs ==
    {NoBikeDoc} \cup
    [exists : {TRUE}, status : Statuses \cup {Missing},
     userId : Uids \cup {NoUser}, clientId : {NoUser}]

JobDocs == {NoJobDoc} \cup [exists : {TRUE}, userId : Uids \cup {NoUser}]

DocIds(coll) ==
    CASE coll = "users" -> Uids
      [] coll = "bikes" -> BikeIds
      [] coll = "jobs" -> JobIds
      [] coll = "clients" -> ClientIds
      [] OTHER -> 1..MaxCalls   \* sale records: one per submission at most

\* one addressed document, a bike or a job, of any shape
InitPolicy ==
    /\ users \in [Uids -> UserDocs]
    /\ \/ /\ \E b \in BikeIds, d \in BikeDocs :
                bikes = [x \in BikeIds |-> IF x = b THEN d ELSE NoBikeDoc]
          /\ jobs = NoJobs
       \/ /\ bikes = [x \in BikeIds |-> NoBikeDoc]
          /\ \E j \in JobIds, d \in JobDocs :
                jobs = [x \in JobIds |-> IF x = j THEN d ELSE NoJobDoc]
    /\ call = [u \in Uids |-> IdleCall]
    /\ ncalls = 0
    /\ req = NoReq
    /\ deployed = TRUE
    /\ AuthIdle
    /\ ClientsIdle
    /\ SalesIdle
    /\ ScreensIdle

Evaluate(uid, op, coll, id) ==
    /\ req = NoReq
    /\ req' = [uid |-> uid, op |-> op, coll |-> coll, id |-> id,
               allowed |-> Allowed(uid, op, coll, id)]
    /\ UNCHANGED <<users, bikes, call, ncalls, ext>>

NextPolicy ==
    \E uid \in Uids \cup {NoAuth}, op \in Ops, coll \in Collections \cup Unmatched :
        \E id \in DocIds(coll) : Evaluate(uid, op, coll, id)

SpecPolicy == InitPolicy /\ [][NextPolicy]_vars

\* =================================================================== claims
IsAdminDoc(uid) == uid # NoAuth /\ users[uid].exists /\ users[uid].role = "admin"

C2_AdminAllBikeOps ==
    (req.coll = "bikes" /\ IsAdminDoc(req.uid)) => req.allowed

\* an admin deletes a sold bike that another user owns
C2_Witness ==
    /\ req.coll = "bikes" /\ req.op = "delete" /\ IsAdminDoc(req.uid)
    /\ bikes[req.id].exists /\ bikes[req.id].status = "sold"
    /\ bikes[req.id].userId \notin {req.uid, NoUser}
    /\ req.allowed

\* C9: an update or delete of an existing bike document is allowed exactly
\* when the requester is authenticated and is the document's userId or an
\* admin; the status is no part of the decision.
C9_BikeWrite ==
    (req.coll = "bikes" /\ req.op \in {"update", "delete"} /\ bikes[req.id].exists)
    => (req.allowed <=> /\ req.uid # NoAuth
                        /\ \/ bikes[req.id].userId = req.uid
                           \/ IsAdminDoc(req.uid))

\* a non-admin who is not the owner is denied the update of an available bike
C9_Witness ==
    /\ req.coll = "bikes" /\ req.op = "update" /\ req.uid # NoAuth
    /\ bikes[req.id].exists /\ bikes[req.id].status = "available"
    /\ bikes[req.id].userId # req.uid
    /\ ~IsAdminDoc(req.uid)
    /\ ~req.allowed

\* C10: a request on users/{id} is allowed only if it is a create, read or
\* update by the requester whose uid is id, admins included; a delete of a
\* user document is never allowed.
C10_UsersOwnOnly ==
    (req.coll = "users" /\ req.allowed)
    => (req.uid # NoAuth /\ req.uid = req.id /\ req.op \in {"create", "read", "update"})

\* an admin is denied the read of another user's document
C10_Witness ==
    /\ req.coll = "users" /\ req.op = "read" /\ IsAdminDoc(req.uid)
    /\ req.uid # req.id
    /\ ~req.allowed

\* ------------------------------------------------- purchase and creation
IsPurchase(c) == c.fn = "purchaseBikeForUser"
IsCreate(c)   == c.fn = "createBikeForUser"

\* the step in which the bike update of another purchase call for b lands
OtherUpdateLands(u, b) ==
    \E v \in Uids \ {u} :
        /\ IsPurchase(call[v]) /\ call[v].bike = b
        /\ call[v].pc = "updateBike" /\ call'[v].pc = "associate"
        /\ bikes'[b].clientId = v

\* C3: a purchaseBikeForUser call whose re-read of the bike is answered with
\* a document of status other than 'available' throws the 'not available'
\* error, which handleBikeOrder reports as such, and the step leaves the
\* bikes and users collections as they were.
C3_NotAvailableWritesNothing ==
    [][\A u \in Uids :
          LET c == call[u]
              b == c.bike
          IN  (/\ IsPurchase(c) /\ c.pc = "getBike" /\ call'[u] # c
               /\ call'[u].err \notin {ErrUnavailable, ErrPermission}
               /\ c.uex /\ bikes[b].exists /\ bikes[b].status # "available")
              => /\ call'[u].pc = "failed"
                 /\ call'[u].err = ErrNotAvailable
                 /\ errorMessage(call'[u].err) = "This bike is no longer available for purchase."
                 /\ bikes' = bikes
                 /\ users' = users]_vars

\* a purchase of a sold bike has thrown the 'not available' error
C3_Witness ==
    \E u \in Uids :
        /\ IsPurchase(call[u]) /\ call[u].pc = "failed"
        /\ call[u].err = ErrNotAvailable /\ call[u].at = "getBike"
        /\ bikes[call[u].bike].status = "sold"

\* C4 as claimed: whenever a purchaseBikeForUser(U, B) call has returned
\* successfully, B has status 'sold' and clientId U, under any interleaving
\* with other purchase calls.
C4_Claim ==
    \A u \in Uids :
        (IsPurchase(call[u]) /\ call[u].pc = "done")
        => /\ bikes[call[u].bike].status = "sold"
           /\ bikes[call[u].bike].clientId = u

\* C5 as claimed: a purchase by a non-admin user of a bike that an admin
\* created succeeds under the rules (unless the request got no answer or
\* another purchaser was first) and ends with the bike sold to the purchaser
\* and contained in the purchaser's bikes array.
C5_Claim ==
    \A u \in Uids :
        LET c == call[u]
            b == c.bike
        IN  (/\ IsPurchase(c) /\ c.pc \in {"done", "failed"}
             /\ users[u].role = "user"
             /\ bikes[b].userId # NoUser /\ IsAdminDoc(bikes[b].userId)
             /\ b \in users[bikes[b].userId].bikes
             /\ c.err \notin {ErrUnavailable, ErrNotAvailable}
             /\ \A v \in Uids \ {u} : ~(IsPurchase(call[v]) /\ call[v].bike = b))
            => /\ c.pc = "done"
               /\ bikes[b].status = "sold"
               /\ bikes[b].clientId = u
               /\ b \in users[u].bikes

\* C6: a purchase call that has passed its availability check applies its
\* bike update also when the bike has meanwhile been sold by another call:
\* unless the rules deny the update or it gets no answer, the update lands,
\* overwrites clientId and the call goes on to report success.  With the
\* witness, two calls for one bike both report success.
C6_NoGuardAtUpdate ==
    [][\A u \in Uids :
          LET c == call[u]
              b == c.bike
          IN  (/\ IsPurchase(c) /\ c.pc = "updateBike" /\ call'[u] # c
               /\ bikes[b].status = "sold"
               /\ call'[u].err \notin {ErrUnavailable, ErrPermission})
              => /\ call'[u].pc = "associate"
                 /\ bikes'[b].status = "sold"
                 /\ bikes'[b].clientId = u]_vars

\* two purchase calls of different users for the same bike have both
\* returned successfully
C6_Witness ==
    \E u \in Uids, v \in Uids :
        /\ u # v
        /\ IsPurchase(call[u]) /\ call[u].pc = "done"
        /\ IsPurchase(call[v]) /\ call[v].pc = "done"
        /\ call[u].bike = call[v].bike

C11_JobsRule ==
    req.coll = "jobs"
    => (req.allowed <=>
            IF req.op = "create" THEN req.uid # NoAuth
            ELSE /\ req.uid # NoAuth
                 /\ \/ jobs[req.id].userId = req.uid
                    \/ IsAdminDoc(req.uid))

\* a non-admin is denied the read of a job that another user owns
C11_Witness ==
    /\ req.coll = "jobs" /\ req.op = "read" /\ req.uid # NoAuth
    /\ jobs[req.id].exists /\ jobs[req.id].userId \notin {req.uid, NoUser}
    /\ users[req.uid].exists /\ users[req.uid].role = "user"
    /\ ~req.allowed

\* C12: with the rules in force, whenever a user document's role changes from
\* 'user' to 'admin', the request that writes it comes from a requester whose
\* own user document already has role 'admin'.
C12_Claim ==
    [][deployed =>
         \A t \in Uids :
            (users[t].exists /\ users[t].role = "user" /\ users'[t].role = "admin")
            => IsAdminDoc(fbUser)]_vars

\* the lookups of the AuthProvider that find no admin: the listener's lookup
\* fails, or finds a document whose role is not 'admin' (or that has no role),
\* or finds no document and writes a new one; logIn finds a document whose
\* role is not 'admin'; sign-up and sign-out
C13_LeavesFalse ==
    /\ \A t \in tasks, ans \in StoreAnswers :
          /\ (/\ Listener_GetDoc(t, ans)
              /\ ans # "ok" \/ (users[t.uid].exists /\ users[t.uid].role # "admin"))
             => ~auth'.isAdmin
          /\ Listener_SetDoc(t, ans) => ~auth'.isAdmin
          /\ SignUp_SetDoc(t, "ok") => ~auth'.isAdmin
          /\ (LogIn_GetDoc(t, "ok") /\ users[t.uid].exists /\ users[t.uid].role # "admin")
             => ~auth'.isAdmin
    /\ logOut(TRUE) => ~auth'.isAdmin

\* the lookup of logIn fails or finds no document
LogInLookupFails(t, ans) ==
    LogIn_GetDoc(t, ans) /\ (ans # "ok" \/ ~users[t.uid].exists)

\* C13: in every state of the AuthProvider isAdmin is true only if a user is
\* loaded and the loaded user's role is 'admin'; a user document with no
\* role, a missing user document, a failed lookup (the listener's and
\* logIn's), sign-up and sign-out all end with isAdmin false.
C13_Claim ==
    /\ [](auth.isAdmin => (auth.user # NoUser /\ auth.role = "admin"))
    /\ [][/\ C13_LeavesFalse
           /\ \A t \in tasks, ans \in StoreAnswers :
                 LogInLookupFails(t, ans) => ~auth'.isAdmin]_vars

\* C13 (amended): as C13, except that a lookup of logIn that fails or finds
\* no document leaves isAdmin (and the loaded user) as they were.
C13_Amended ==
    /\ [](auth.isAdmin => (auth.user # NoUser /\ auth.role = "admin"))
    /\ [][/\ C13_LeavesFalse
           /\ \A t \in tasks, ans \in StoreAnswers :
                 LogInLookupFails(t, ans)
                 => /\ auth'.isAdmin = auth.isAdmin
                    /\ auth'.user = auth.user
                    /\ auth'.role = auth.role]_vars

\* after one logIn the listener has loaded an admin and logIn's own lookup
\* has failed: isAdmin is still true
C13_Witness ==
    /\ ncalls = 1 /\ tasks = {}
    /\ auth.isAdmin /\ auth.error /\ auth.user = fbUser

\* C14: when deleteClient reports success, the client document is absent
\* and no bike has the client's id as its clientId, the bikes that another
\* writer associated with the client during the deletion included.
C14_Claim ==
    [][\A u \in Uids :
          (screen[u].pc = "commit" /\ screen'[u].alert = "Success")
          => /\ ~clients'[screen[u].client]
             /\ \A b \in BikeIds : bikes'[b].clientId # screen[u].client]_vars

\* C15: the writes of the deletion cascade are separate requests that each
\* succeed or fail on their own: no step of deleteClient writes a bike and
\* the client document together.
C15_Claim ==
    [][\A u \in Uids :
          screen[u].pc = "commit"
          => ~(clients' # clients /\ bikes' # bikes)]_vars

\* C15 (amended): the cascade is one batch: the commit clears the clientId
\* of every bike the query returned and deletes the client document, or, if
\* it fails, writes nothing; a deleteClient that has failed has changed
\* neither a bike nor the client document.
C15_Amended ==
    [][\A u \in Uids :
          /\ (screen[u].pc = "commit" /\ screen'[u].pc = "done")
             => /\ ~clients'[screen[u].client]
                /\ \A b \in screen[u].snap : bikes'[b].clientId = NoClient
          /\ (screen[u].pc \in {"getDocs", "commit"} /\ screen'[u].pc = "failed")
             => (bikes' = bikes /\ clients' = clients)]_vars

\* a deleteClient has failed at its commit: the client is still there and
\* the bike its query found still references it
C15_Witness ==
    \E u \in Uids :
        /\ screen[u].pc = "failed" /\ screen[u].snap # {}
        /\ clients[screen[u].client]
        /\ \A b \in screen[u].snap : bikes[b].clientId = screen[u].client

\* ------------------------------------------------------------------- C16
\* C16: a bike's status is written to 'sold' only when its current status is
\* 'available', by the sale review (updateDoc after the purchase record) and
\* by the storefront purchase (updateDoc of purchaseBikeForUser) alike.
C16_Claim ==
    [][/\ \A u \in Uids :
             (wiz[u].pc = "updateDoc" /\ wiz'[u].alert = "Success")
             => bikes[wiz[u].bikeId].status = "available"
       /\ \A t \in tasks :
             (BuyNow_UpdateBike(t) /\ updateBikeError(t.uid, t.bike) = NoErr)
             => bikes[t.bike].status = "available"]_vars

\* ------------------------------------------------------------------- C17
\* C17: every bike document the application creates starts with status
\* 'available', whichever creation path wrote it.
C17_Claim ==
    [][\A b \in BikeIds :
          (~bikes[b].exists /\ bikes'[b].exists) => bikes'[b].status = "available"]_vars

\* ------------------------------------------------------------------- C18
\* C18: no operation writes the status 'maintenance': no bike document ever
\* has it in a state the flows produce.
C18_NoMaintenance ==
    \A b \in BikeIds : bikes[b].exists => bikes[b].status # "maintenance"

\* the flows have written statuses: a created bike has been sold and another
\* bike has been created since
C18_Witness ==
    \E a, b \in BikeIds :
        /\ a # b
        /\ bikes[a].exists /\ bikes[a].status = "sold" /\ bikes[a].clientId # NoUser
        /\ bikes[b].exists /\ bikes[b].status \in {"available", Missing}

\* ------------------------------------------------------------------- C19
\* C19: a sale submission whose data lacks a bike id or a client id is
\* rejected before any request: nothing is sent to the store, no purchase
\* record is created and no bike is updated.
C19_Claim ==
    [][\A u \in Uids :
          (/\ wiz[u].step = "review"
           /\ (wiz[u].bikeId = NoBike \/ wiz[u].clientId = NoClient))
          => /\ wiz'[u].pc = "idle"
             /\ purchases' = purchases
             /\ bikes' = bikes]_vars

\* ------------------------------------------------------------------- C20
\* C20: while one invocation of a user action is in flight, a second one of
\* the same action cannot start, for the sale review's submission and for
\* the storefront's Buy Now.
C20_Claim ==
    [][\A u \in Uids :
          /\ handleSubmitPurchase(u) => wiz[u].pc = "idle"
          /\ \A b \in BikeIds : BuyNow(u, b) => Orders(u) = {}]_vars

\* ------------------------------------------------------------------- C21
\* C21: with a signed-in user whose account data is loaded and nothing in
\* flight, the AuthProvider's isAdmin equals the rules' isAdmin() for that
\* user (users/{uid}.role == 'admin'), also after a role elevation.
C21_Claim ==
    (/\ tasks = {}
     /\ fbUser # NoAuth
     /\ auth.user = fbUser
     /\ users[fbUser].exists)
    => (auth.isAdmin <=> IsAdminDoc(fbUser))

\* ------------------------------------------------------------------- C22
\* the sale reviews whose addDoc(purchases) is answered with success in
\* this step
C22_Added ==
    {u \in Uids : /\ wiz[u].pc = "addDoc"
                  /\ (wiz'[u].pc = "updateDoc" \/ wiz'[u].alert = "Success")}

\* C22: a sale-review submission passes its addDoc once, and that step
\* creates exactly one purchase record, with status 'completed'; a
\* submission is confirmed only after it; no step changes or removes a
\* purchase record.
C22_OnePurchase ==
    [][/\ purchases \subseteq purchases'
       /\ \A r \in purchases' \ purchases : r.status = "completed"
       /\ Cardinality(purchases' \ purchases) = Cardinality(C22_Added)
       /\ \A u \in Uids :
             (wiz[u].isSubmitting /\ wiz'[u].alert = "Success")
             => \/ u \in C22_Added
                \/ wiz[u].pc = "updateDoc" /\ purchases' = purchases]_vars

\* a submission has been confirmed and its purchase record is in the store
C22_Witness ==
    \E u \in Uids :
        /\ wiz[u].alert = "Success" /\ wiz[u].step = "done"
        /\ \E r \in purchases : r.clientId = wiz[u].clientId /\ r.bikeId = wiz[u].bikeId

\* ------------------------------------------------------------------- C23
\* C23: when the processing of a scan fails at the response (API error
\* status, no JSON object in the text, unparsable JSON, neither customerName
\* nor customerPhone), no job document is written, the error is shown with
\* the retake button, and a navigation back is pending.
C23_Claim ==
    [][\A r \in Responses :
          (takePhoto_Fetch(r) /\ processResponse(r) # "save")
          => /\ jobs' = jobs
             /\ scan'.onScreen /\ scan'.error /\ ~scan'.isProcessing
             /\ scan'.timers > 0]_vars

\* ------------------------------------------------------------------- C29
\* C29: every job document the application creates records a uid in userId,
\* and under the jobs rule that user may read and update the job.
C29_Claim ==
    [][\A j \in JobIds :
          (~jobs[j].exists /\ jobs'[j].exists)
          => /\ jobs'[j].userId \in Uids
             /\ JobsRule(jobs'[j].userId, "read", jobs'[j]) = T3
             /\ JobsRule(jobs'[j].userId, "update", jobs'[j]) = T3]_vars

\* ------------------------------------------------------------------- C24
\* C24: once the cleanup has set isActive to false, the completion of the
\* still-pending fetchBikes request updates no state: bikes, error and
\* loading (the whole BikeList state) stay as they are, whether the request
\* resolves or rejects.
C24_InactiveFetchUpdatesNothing ==
    [][\A t \in tasks :
          (t.fn = "fetchBikes" /\ ~t.isActive /\ t \notin tasks') => view' = view]_vars

\* a fetch has completed after the screen lost focus: nothing is in flight
\* and loading is still as fetchBikes set it
C24_Witness ==
    /\ ncalls > 0
    /\ tasks = {}
    /\ ~view.focused
    /\ view.loading /\ view.list = {} /\ ~view.error
    /\ querySnapshot # {}

\* ------------------------------------------------------------------- C25
\* C25: every request of an unauthenticated requester is denied, for every
\* operation on every collection, the read of an available bike included.
C25_UnauthenticatedDenied ==
    (req # NoReq /\ req.uid = NoAuth) => ~req.allowed

\* an unauthenticated read of an available bike is denied
C25_Witness ==
    /\ req # NoReq /\ req.uid = NoAuth
    /\ req.coll = "bikes" /\ req.op = "read"
    /\ bikes[req.id].exists /\ bikes[req.id].status = "available"
    /\ ~req.allowed

\* ------------------------------------------------------------------- C26
\* the rules deny every operation on clients, purchases and sales to every
\* requester, whatever the role in the requester's user document
C26_UnmatchedDenied ==
    \A uid \in Uids \cup {NoAuth}, op \in Ops, coll \in Unmatched :
        \A id \in DocIds(coll) : ~Allowed(uid, op, coll, id)

\* a step of deleteClient, or of the sale review's first write, by user u
C26_Step(u) ==
    \/ screen[u].pc \in {"getDocs", "commit"} /\ screen'[u] # screen[u]
    \/ wiz[u].pc = "addDoc" /\ wiz'[u] # wiz[u]

\* C26: every read and write on clients, purchases and sales is denied for
\* every requester, admins included; so while the rules are in force no
\* client or purchase document changes, deleteClient changes no bike, and
\* the sale review ends at its first write with an error.
C26_UnmatchedNeverChange ==
    /\ [](C26_UnmatchedDenied)
    /\ [][deployed =>
            /\ clients' = clients
            /\ purchases' = purchases
            /\ \A u \in Uids :
                  C26_Step(u)
                  => /\ bikes' = bikes /\ users' = users
                     /\ wiz[u].pc = "addDoc"
                        => wiz'[u].pc = "idle" /\ wiz'[u].alert = "Error"]_vars

\* under the deployed rules an admin's deleteClient was refused at its
\* batch, or an admin's sale review at its addDoc
C26_Witness ==
    /\ deployed
    /\ \E u \in Uids :
          /\ IsAdminDoc(u)
          /\ \/ /\ screen[u].pc = "failed" /\ screen[u].alert = "Error"
                /\ clients[screen[u].client]
                /\ \E b \in BikeIds : bikes[b].clientId = screen[u].client
             \/ /\ wiz[u].step = "review" /\ wiz[u].alert = "Error"
                /\ purchases = {}

\* ------------------------------------------------------------------- C27
\* C27: each bike id is in the bikes array of at most one user document, and
\* for a sold bike that user is the bike's clientId.
C27_Claim ==
    \A b \in BikeIds :
        /\ Cardinality({u \in Uids : b \in users[u].bikes}) <= 1
        /\ (bikes[b].exists /\ bikes[b].status = "sold")
           => \A u \in Uids : b \in users[u].bikes => bikes[b].clientId = u

\* ------------------------------------------------------------------- C28
\* C28: once a bike's status is 'sold' no operation changes it to another
\* value: storefront purchases, sale submissions, the client selection of a
\* bike and the deletion of a client leave a sold bike sold.
C28_SoldIsAbsorbing ==
    [][\A b \in BikeIds :
          (bikes[b].exists /\ bikes[b].status = "sold")
          => (bikes'[b].exists /\ bikes'[b].status = "sold")]_vars

\* a deletion's batch has cleared the client of a sold bike and the storefront
\* has refused to sell that bike again: the bike is still sold
C28_Witness ==
    \E u \in Uids, v \in Uids, b \in BikeIds :
        /\ screen[u].alert = "Success" /\ b \in screen[u].snap
        /\ bikes[b].status = "sold" /\ bikes[b].clientId = NoClient
        /\ call[v].bike = b /\ call[v].pc = "failed" /\ call[v].err = ErrNotAvailable

\* ------------------------------------------------------------------- C30
\* C30: after handleCreateAdmin has created the auth account, the flow ends
\* with role 'admin' in every interleaving with the auth-state listener that
\* creates the missing user document: whenever the store answers the getDoc of
\* createAdminAccount, the user document is there, so the flow goes on to its
\* updateDoc and never throws 'User not found'.
C30_Claim ==
    [][\A t \in tasks :
          (t.fn = "createAdminAccount" /\ t.pc = "getDoc" /\ SetAdmin_GetDoc(t, "ok"))
          => /\ users[t.uid].exists
             /\ Task("createAdminAccount", "updateDoc", t.uid) \in tasks']_vars

====
